---------------------------- MODULE Spec2Model ----------------------------
(***************************************************************************)
(* A model of two components of the repository:                            *)
(*                                                                         *)
(*   stroller/src/config.rs         the strict environment reader          *)
(*                                  (require_str and its four accessors)   *)
(*   queue-scheduler/src/main.rs    the metrics ticker (main)              *)
(*                                                                         *)
(* The two components do not interact.  EnvSpec runs the reader against a  *)
(* process environment that changes between calls; Spec runs main against  *)
(* a database and a clock that change between its steps; LiveSpec is main  *)
(* under the fairness a sequential program has, with its histories kept as *)
(* sliding windows so that the endless loop has finitely many states.      *)
(***************************************************************************)
EXTENDS Integers, Sequences, FiniteSets, TLC

VARIABLES
    env,      \* the process environment: variable name -> EnvVal
    last,     \* the most recent call into config.rs and its outcome
    prev,     \* the call before it
    alive,    \* FALSE once a call into config.rs has panicked
    pc,       \* main: the next statement to run
    now,      \* the monotonic clock (time::Instant), in clock units
    t_start,  \* main: the instant captured at main.rs:11
    sink,     \* main: the instant the logger was built
    cfg,      \* main: whether config::load() has returned a configuration
    conns,    \* number of database connections opened so far
    db,       \* the events table: row -> status
    rows,     \* main: the result set of the last query
    count,    \* main: the count extracted from rows
    log,      \* the records written to the log sink (stdout)
    exit,     \* why the process ended, "" while it runs
    trace     \* the statements main has run, in order

envVars == <<env, last, prev, alive>>
progVars == <<pc, t_start, sink, cfg, conns, rows, count, log, exit, trace>>
worldVars == <<now, db>>
vars == <<env, last, prev, alive, pc, now, t_start, sink, cfg, conns, db,
          rows, count, log, exit, trace>>

-----------------------------------------------------------------------------
(***************************************************************************)
(* stroller/src/config.rs                                                  *)
(***************************************************************************)

\* The variable names the accessors are bound to.
APP_ID == "DARK_CONFIG_PUSHER_APP_ID"
KEY == "DARK_CONFIG_PUSHER_KEY"
SECRET == "DARK_CONFIG_PUSHER_SECRET"
HOST == "DARK_CONFIG_PUSHER_HOST"

Names == {APP_ID, KEY, SECRET, HOST}

\* Values a variable is given in the model.
Strs == {"", "abc123"}

\* A variable is unset, set to a value that is not valid Unicode ("bad"),
\* or set to a string.
Unset == [st |-> "unset", val |-> ""]
NotUnicode == [st |-> "bad", val |-> ""]
Str(s) == [st |-> "ok", val |-> s]
EnvVal == {Unset, NotUnicode} \cup {Str(s) : s \in Strs}

\* std::env::var: Ok(value) when the variable is set to valid Unicode,
\* Err(NotPresent) when unset, Err(NotUnicode) otherwise.
env_var(e, name) ==
    IF e[name].st = "ok"
    THEN [ok |-> TRUE, val |-> e[name].val]
    ELSE [ok |-> FALSE, val |-> IF e[name].st = "unset" THEN "NotPresent" ELSE "NotUnicode"]

\* A wrong reader: an empty value is taken for a missing one.
require_str_empty_is_missing(e, name) ==
    LET r == env_var(e, name)
    IN  IF r.ok /\ r.val # ""
        THEN [kind |-> "ok", val |-> r.val]
        ELSE [kind |-> "panic", val |-> name \o " must be set"]

\* A wrong reader: a missing value is defaulted to the empty string.
require_str_defaulting(e, name) ==
    LET r == env_var(e, name)
    IN  [kind |-> "ok", val |-> IF r.ok THEN r.val ELSE ""]

\* env::var(name).unwrap_or_else(|_| panic!("{} must be set", name))
require_str(e, name) ==
    LET r == env_var(e, name)
    IN  IF r.ok
        THEN [kind |-> "ok", val |-> r.val]
        ELSE [kind |-> "panic", val |-> name \o " must be set"]

pusher_app_id(e) == require_str(e, APP_ID)

pusher_key(e) == require_str(e, KEY)

pusher_secret(e) == require_str(e, SECRET)

pusher_host(e) == require_str(e, HOST)

NoCall == [fn |-> "", name |-> "", seen |-> Unset, out |-> [kind |-> "", val |-> ""]]

\* A call of fn, which reads the variable name, with outcome out.  seen is
\* the variable's value in the environment at the time of the call.  A panic
\* unwinds the caller: it makes no further call.
Call(fn, name, out) ==
    /\ alive
    /\ last' = [fn |-> fn, name |-> name, seen |-> env[name], out |-> out]
    /\ prev' = last
    /\ alive' = (out.kind = "ok")
    /\ UNCHANGED <<env, progVars, worldVars>>

CallRequireStr == \E name \in Names : Call("require_str", name, require_str(env, name))

CallPusherAppId == Call("pusher_app_id", APP_ID, pusher_app_id(env))

CallPusherKey == Call("pusher_key", KEY, pusher_key(env))

CallPusherSecret == Call("pusher_secret", SECRET, pusher_secret(env))

CallPusherHost == Call("pusher_host", HOST, pusher_host(env))

\* The environment of the running process is changed from outside the
\* reader (set_var, remove_var).
SetEnv ==
    \E name \in Names, v \in EnvVal :
        /\ alive
        /\ env[name] # v
        /\ env' = [env EXCEPT ![name] = v]
        /\ UNCHANGED <<last, prev, alive, progVars, worldVars>>

EnvInit ==
    /\ env \in [Names -> EnvVal]
    /\ last = NoCall
    /\ prev = NoCall
    /\ alive = TRUE

EnvNext ==
    \/ CallRequireStr
    \/ CallPusherAppId
    \/ CallPusherKey
    \/ CallPusherSecret
    \/ CallPusherHost
    \/ SetEnv

-----------------------------------------------------------------------------
(***************************************************************************)
(* queue-scheduler/src/main.rs                                             *)
(***************************************************************************)

\* The clock's resolution: units per second.
UnitsPerSec == 2

\* The last instant of the bounded model.
MaxNow == 7

\* The number of rows of the events table.
NRows == 2

\* How many entries LiveSpec keeps of the log and of the trace.
Window == 1

\* time::Duration::from_secs(1)
SLEEP_SECS == 1

Statuses == {"new", "done"}

NoInstant == [set |-> FALSE, at |-> 0]
Instant(t) == [set |-> TRUE, at |-> t]

\* One entry of the trace: the statement run and what it saw.  dur is the
\* time a sleep took, snap the events table at the instant of a query, at
\* the instant a record was constructed.
Ev(e) == [ev |-> e, dur |-> 0, snap |-> <<>>, at |-> 0]

Min(a, b) == IF a < b THEN a ELSE b

\* Appending to a history: whole in the bounded model, the last Window
\* entries in the live one.
Push(s, e, live) ==
    IF live /\ Len(s) >= Window THEN Append(Tail(s), e) ELSE Append(s, e)

\* The clock after d more units: it stops the bounded model at MaxNow and
\* saturates there in the live one.
CanAdvance(d, live) == live \/ now + d <= MaxNow
Advance(d, live) == IF live THEN Min(now + d, MaxNow) ELSE now + d

\* The process panics: nothing more of main runs.
Panic(why, e, live) ==
    /\ pc' = "terminated"
    /\ exit' = why
    /\ trace' = Push(trace, Ev(e), live)

\* Instant::elapsed().as_secs(): the whole seconds between t and the clock.
AsSecsRoundedUp(t) == (now - t.at + UnitsPerSec - 1) \div UnitsPerSec

as_secs(t) == (now - t.at) \div UnitsPerSec

\* SELECT COUNT(*) FROM events, without the WHERE clause.
CountAll(table) == Cardinality(DOMAIN table)

\* SELECT COUNT(*) FROM events WHERE status = 'new'
CountNew(table) == Cardinality({r \in DOMAIN table : table[r] = "new"})

Cell(type, v) == [type |-> type, val |-> v]

\* What conn.query can return as Ok: from a conforming server one row with
\* one int8 column holding the count; the other two are the replies on which
\* rows.get(0).get(0) panics (no row, a column that is no i64).
Replies(table) ==
    { << <<Cell("int8", CountNew(table))>> >>,
      << >>,
      << <<Cell("text", 0)>> >> }

\* The record info!(log, "tick"; "new_events.count" => count) writes, with
\* the key-values the logger was built with.  (The timestamp key, a wall
\* clock reading, is left out.)
Record(c) ==
    [level |-> "INFO", msg |-> "tick", name |-> "queue-scheduler",
     age |-> as_secs(t_start), count |-> c]

\* main.rs:11  let t_start = time::Instant::now();
Capture(live) ==
    /\ pc = "capture"
    /\ t_start' = Instant(now)
    /\ pc' = "build_log"
    /\ trace' = Push(trace, Ev("capture"), live)
    /\ UNCHANGED <<sink, cfg, conns, rows, count, log, exit, worldVars, envVars>>

\* main.rs:13-32  let log = slog::Logger::root(...)
BuildLog(live) ==
    /\ pc = "build_log"
    /\ sink' = Instant(now)
    /\ pc' = "load_cfg"
    /\ trace' = Push(trace, Ev("build_log"), live)
    /\ UNCHANGED <<t_start, cfg, conns, rows, count, log, exit, worldVars, envVars>>

\* main.rs:34  let cfg = config::load().unwrap();
LoadConfig(live) ==
    /\ pc = "load_cfg"
    /\ \/ /\ cfg' = TRUE
          /\ pc' = "connect"
          /\ trace' = Push(trace, Ev("load_ok"), live)
          /\ UNCHANGED exit
       \/ /\ Panic("config", "load_err", live)
          /\ UNCHANGED cfg
    /\ UNCHANGED <<t_start, sink, conns, rows, count, log, worldVars, envVars>>

\* A wrong connect: a refused connection is tried again.
ConnectRetrying(live) ==
    /\ pc = "connect"
    /\ \/ /\ conns' = conns + 1
          /\ pc' = "sleep"
          /\ trace' = Push(trace, Ev("connect_ok"), live)
       \/ /\ pc' = "connect"
          /\ trace' = Push(trace, Ev("connect_err"), live)
          /\ UNCHANGED conns
    /\ UNCHANGED <<t_start, sink, cfg, rows, count, log, exit, worldVars, envVars>>

\* A wrong loop: the first query is issued right after connecting.
ConnectThenQuery(live) ==
    /\ pc = "connect"
    /\ \/ /\ conns' = conns + 1
          /\ pc' = "query"
          /\ trace' = Push(trace, Ev("connect_ok"), live)
          /\ UNCHANGED exit
       \/ /\ Panic("connect", "connect_err", live)
          /\ UNCHANGED conns
    /\ UNCHANGED <<t_start, sink, cfg, rows, count, log, worldVars, envVars>>

\* main.rs:35  let conn = postgres::Connection::connect(...).unwrap();
Connect(live) ==
    /\ pc = "connect"
    /\ \/ /\ conns' = conns + 1
          /\ pc' = "sleep"
          /\ trace' = Push(trace, Ev("connect_ok"), live)
          /\ UNCHANGED exit
       \/ /\ Panic("connect", "connect_err", live)
          /\ UNCHANGED conns
    /\ UNCHANGED <<t_start, sink, cfg, rows, count, log, worldVars, envVars>>

\* main.rs:38  thread::sleep(time::Duration::from_secs(1));
Sleep(live) ==
    LET d == SLEEP_SECS * UnitsPerSec
    IN  /\ pc = "sleep"
        /\ CanAdvance(d, live)
        /\ now' = Advance(d, live)
        /\ pc' = "query"
        /\ trace' = Push(trace, [Ev("sleep") EXCEPT !.dur = d], live)
        /\ UNCHANGED <<t_start, sink, cfg, conns, rows, count, log, exit, db, envVars>>

\* A wrong query: a failed query reconnects instead of ending the process.
QueryReconnecting(live) ==
    /\ pc = "query"
    /\ \/ /\ rows' \in Replies(db)
          /\ pc' = "extract"
          /\ trace' = Push(trace, [Ev("query_ok") EXCEPT !.snap = db], live)
       \/ /\ pc' = "connect"
          /\ trace' = Push(trace, Ev("query_err"), live)
          /\ UNCHANGED rows
    /\ UNCHANGED <<t_start, sink, cfg, conns, count, log, exit, worldVars, envVars>>

\* A wrong query: a failed query is logged before the process ends.
QueryLoggingError(live) ==
    /\ pc = "query"
    /\ \/ /\ rows' \in Replies(db)
          /\ pc' = "extract"
          /\ trace' = Push(trace, [Ev("query_ok") EXCEPT !.snap = db], live)
          /\ UNCHANGED <<exit, log>>
       \/ /\ Panic("query", "query_err", live)
          /\ log' = Push(log, [Record(0) EXCEPT !.level = "ERRO", !.msg = "query failed"], live)
          /\ UNCHANGED rows
    /\ UNCHANGED <<t_start, sink, cfg, conns, count, worldVars, envVars>>

\* main.rs:39-41  let rows = conn.query("SELECT COUNT(*) ...", &[]).unwrap();
Query(live) ==
    /\ pc = "query"
    /\ \/ /\ rows' \in Replies(db)
          /\ pc' = "extract"
          /\ trace' = Push(trace, [Ev("query_ok") EXCEPT !.snap = db], live)
          /\ UNCHANGED exit
       \/ /\ Panic("query", "query_err", live)
          /\ UNCHANGED rows
    /\ UNCHANGED <<t_start, sink, cfg, conns, count, log, worldVars, envVars>>

\* main.rs:42  let count: i64 = rows.get(0).get(0);
Extract(live) ==
    /\ pc = "extract"
    /\ IF Len(rows) > 0 /\ Len(rows[1]) > 0 /\ rows[1][1].type = "int8"
       THEN /\ count' = rows[1][1].val
            /\ pc' = "emit"
            /\ trace' = Push(trace, Ev("extract_ok"), live)
            /\ UNCHANGED exit
       ELSE /\ Panic("extract", "extract_err", live)
            /\ UNCHANGED count
    /\ UNCHANGED <<t_start, sink, cfg, conns, rows, log, worldVars, envVars>>

\* A wrong emit: the record is written twice.
EmitTwice(live) ==
    /\ pc = "emit"
    /\ \/ /\ log' = Push(Push(log, Record(count), live), Record(count), live)
          /\ pc' = "sleep"
          /\ trace' = Push(trace, [Ev("emit") EXCEPT !.at = now], live)
          /\ UNCHANGED exit
       \/ /\ Panic("log", "emit_err", live)
          /\ UNCHANGED log
    /\ UNCHANGED <<t_start, sink, cfg, conns, rows, count, worldVars, envVars>>

\* A wrong loop: it is left after the first record.
EmitThenReturn(live) ==
    /\ pc = "emit"
    /\ \/ /\ log' = Push(log, Record(count), live)
          /\ pc' = "terminated"
          /\ trace' = Push(trace, [Ev("emit") EXCEPT !.at = now], live)
          /\ UNCHANGED exit
       \/ /\ Panic("log", "emit_err", live)
          /\ UNCHANGED log
    /\ UNCHANGED <<t_start, sink, cfg, conns, rows, count, worldVars, envVars>>

\* main.rs:43  info!(log, "tick" ; "new_events.count" => count);
\* The logger's drain is Mutex<Json<Stdout>> mapped through slog::Fuse
\* (main.rs:14-30): a failed write to stdout panics.
Emit(live) ==
    /\ pc = "emit"
    /\ \/ /\ log' = Push(log, Record(count), live)
          /\ pc' = "sleep"
          /\ trace' = Push(trace, [Ev("emit") EXCEPT !.at = now], live)
          /\ UNCHANGED exit
       \/ /\ Panic("log", "emit_err", live)
          /\ UNCHANGED log
    /\ UNCHANGED <<t_start, sink, cfg, conns, rows, count, worldVars, envVars>>

\* Time passes between two statements of main or during one.
Elapse(live) ==
    /\ CanAdvance(1, live)
    /\ now' = Advance(1, live)
    /\ UNCHANGED <<progVars, db, envVars>>

\* Another client of the database changes the status of a row.
DbChange ==
    \E r \in 1..NRows, s \in Statuses :
        /\ db[r] # s
        /\ db' = [db EXCEPT ![r] = s]
        /\ UNCHANGED <<progVars, now, envVars>>

TickerInit ==
    /\ pc = "capture"
    /\ now \in 0..(UnitsPerSec - 1)
    /\ t_start = NoInstant
    /\ sink = NoInstant
    /\ cfg = FALSE
    /\ conns = 0
    /\ db \in [1..NRows -> Statuses]
    /\ rows = <<>>
    /\ count = 0
    /\ log = <<>>
    /\ exit = ""
    /\ trace = <<>>

\* The state of main while only config.rs is exercised.
TickerIdle ==
    /\ pc = "capture"
    /\ now = 0
    /\ t_start = NoInstant
    /\ sink = NoInstant
    /\ cfg = FALSE
    /\ conns = 0
    /\ db = [r \in 1..NRows |-> "done"]
    /\ rows = <<>>
    /\ count = 0
    /\ log = <<>>
    /\ exit = ""
    /\ trace = <<>>

\* The environment while only main is exercised.
EnvIdle ==
    /\ env = [n \in Names |-> Unset]
    /\ last = NoCall
    /\ prev = NoCall
    /\ alive = TRUE

Step(live) ==
    \/ Capture(live)
    \/ BuildLog(live)
    \/ LoadConfig(live)
    \/ Connect(live)
    \/ Sleep(live)
    \/ Query(live)
    \/ Extract(live)
    \/ Emit(live)

Next ==
    \/ Step(FALSE)
    \/ Elapse(FALSE)
    \/ DbChange

LiveNext ==
    \/ Step(TRUE)
    \/ Elapse(TRUE)
    \/ DbChange

Init == TickerInit /\ EnvIdle

Spec == Init /\ [][Next]_vars

\* main is one sequential thread: the statement it is at is eventually run.
LiveSpec == Init /\ [][LiveNext]_vars /\ WF_vars(Step(TRUE))

ConfigInit == EnvInit /\ TickerIdle

EnvSpec == ConfigInit /\ [][EnvNext]_vars

-----------------------------------------------------------------------------
(***************************************************************************)
(* The reader's properties, checked under EnvSpec.                         *)
(***************************************************************************)

\* The calls the state remembers.
Calls == {c \in {last, prev} : c.fn # ""}

\* The variable each accessor is documented to read.
BoundTo(fn) ==
    CASE fn = "pusher_app_id" -> "DARK_CONFIG_PUSHER_APP_ID"
      [] fn = "pusher_key" -> "DARK_CONFIG_PUSHER_KEY"
      [] fn = "pusher_secret" -> "DARK_CONFIG_PUSHER_SECRET"
      [] fn = "pusher_host" -> "DARK_CONFIG_PUSHER_HOST"

\* The message a missing variable is reported with.
MustBeSet(name) ==
    CASE name = "DARK_CONFIG_PUSHER_APP_ID" -> "DARK_CONFIG_PUSHER_APP_ID must be set"
      [] name = "DARK_CONFIG_PUSHER_KEY" -> "DARK_CONFIG_PUSHER_KEY must be set"
      [] name = "DARK_CONFIG_PUSHER_SECRET" -> "DARK_CONFIG_PUSHER_SECRET must be set"
      [] name = "DARK_CONFIG_PUSHER_HOST" -> "DARK_CONFIG_PUSHER_HOST must be set"

ReadsItsOwnVariable(c) == c.fn # "require_str" => c.name = BoundTo(c.fn)

\* C4: a call of the generic reader or of an accessor whose variable is set
\* returns exactly the value the variable has in the environment at the time
\* of the call, the empty string included, whatever an earlier call returned
\* and whatever the other variables are.
C4_ReturnsTheValueAtCallTime ==
    \A c \in Calls :
        /\ ReadsItsOwnVariable(c)
        /\ c.seen.st = "ok" => c.out.kind = "ok" /\ c.out.val = c.seen.val

\* C4's case: the host accessor returned "abc123", the variable was then
\* changed to the empty string, and the next call returned the empty string,
\* with the other three variables unset.
C4_Witness ==
    /\ prev.fn = "pusher_host" /\ prev.out = [kind |-> "ok", val |-> "abc123"]
    /\ last.fn = "pusher_host" /\ last.out = [kind |-> "ok", val |-> ""]
    /\ last.seen = Str("")
    /\ \A n \in Names \ {HOST} : env[n] = Unset

\* C5: a call of the generic reader or of an accessor whose variable is unset
\* or unreadable returns no value: it panics with "<name> must be set", name
\* being the variable the accessor is bound to, and the caller makes no call
\* after it.
C5_MissingIsFatal ==
    /\ \A c \in Calls :
        /\ ReadsItsOwnVariable(c)
        /\ c.seen.st # "ok" => c.out.kind = "panic" /\ c.out.val = MustBeSet(c.name)
    /\ last.out.kind = "panic" => ~alive
    /\ prev.out.kind # "panic"

\* C5's case: after a call that returned, the key accessor is called with
\* its variable unset and panics.
C5_Witness ==
    /\ prev.fn # ""
    /\ last.fn = "pusher_key" /\ last.seen = Unset
    /\ last.out = [kind |-> "panic", val |-> "DARK_CONFIG_PUSHER_KEY must be set"]
    /\ ~alive

-----------------------------------------------------------------------------
(***************************************************************************)
(* The ticker's properties, checked under Spec (C10 under LiveSpec).       *)
(***************************************************************************)

\* The number of entries e among the first k of the trace.
UpTo(k, e) == Cardinality({j \in 1..k : trace[j].ev = e})
Sleeps == UpTo(Len(trace), "sleep")

\* The record the emit at place k of the trace wrote.
RecordOf(k) == log[UpTo(k, "emit")]

TickRecord(r) == r.level = "INFO" /\ r.msg = "tick"

\* The lifecycle states of the ticker.
Phase(p) ==
    CASE p \in {"capture", "build_log", "load_cfg", "connect"} -> "Initializing"
      [] p \in {"sleep", "query", "extract", "emit"} -> "Ticking"
      [] p = "terminated" -> "Terminated"

\* C1: the new_events.count of the record a tick emits is the number of rows
\* whose status is 'new' at the instant that tick's query executed.
C1_CountAtQueryInstant ==
    \A k \in 1..Len(trace) :
        trace[k].ev = "emit" =>
            /\ k > 2
            /\ trace[k - 2].ev = "query_ok"
            /\ UpTo(k, "emit") <= Len(log)
            /\ RecordOf(k).count =
                 Cardinality({r \in DOMAIN trace[k - 2].snap : trace[k - 2].snap[r] = "new"})

\* C1's case: a tick found no 'new' row, the next found every row 'new', and
\* the table has changed again since.
C1_Witness ==
    /\ Len(log) >= 2
    /\ log[1].count = 0
    /\ log[2].count = NRows
    /\ \E r \in 1..NRows : db[r] # "new"

\* C2: while nothing has failed, the records written are exactly one per
\* completed iteration, each an info record with message "tick".
C2_OneRecordPerIteration ==
    exit = "" =>
        /\ Len(log) = Sleeps - (IF pc \in {"query", "extract", "emit"} THEN 1 ELSE 0)
        /\ \A i \in 1..Len(log) : TickRecord(log[i])

\* C2's case: two iterations have completed.
C2_Witness == exit = "" /\ pc = "sleep" /\ Sleeps = 2 /\ Len(log) = 2

\* C3: meta.process_age_s never decreases from one record to the next, and in
\* each record it is the whole number of seconds between t_start and the
\* construction of the record; t_start is captured once, before the log sink
\* is built.
C3_ProcessAge ==
    /\ \A k \in 1..Len(trace) :
        trace[k].ev = "emit" =>
            /\ UpTo(k, "emit") <= Len(log)
            /\ RecordOf(k).age * UnitsPerSec <= trace[k].at - t_start.at
            /\ trace[k].at - t_start.at < (RecordOf(k).age + 1) * UnitsPerSec
    /\ \A i, j \in 1..Len(log) : i < j => log[i].age <= log[j].age
    /\ UpTo(Len(trace), "capture") <= 1
    /\ sink.set => t_start.set /\ t_start.at <= sink.at

\* C3's case: two records of different age, the second constructed a
\* fraction of a second past a whole second.
C3_Witness ==
    /\ Len(log) = 2
    /\ log[1].age < log[2].age
    /\ trace[Len(trace)].ev = "emit"
    /\ (trace[Len(trace)].at - t_start.at) % UnitsPerSec # 0
    /\ t_start.at < sink.at

\* C6: Initializing is left for Ticking only with the log sink built, the
\* configuration loaded and the connection open, and at most once; Ticking is
\* followed by Ticking or Terminated only; nothing of the process changes
\* once Terminated.
C6_Lifecycle ==
    /\ [](UpTo(Len(trace), "connect_ok") <= 1)
    /\ [][/\ Phase(pc) = "Initializing" /\ Phase(pc') = "Ticking" =>
                sink'.set /\ cfg' /\ conns' = 1
          /\ Phase(pc) = "Ticking" => Phase(pc') \in {"Ticking", "Terminated"}
          /\ Phase(pc) = "Terminated" => UNCHANGED progVars]_vars

\* C6's case: the process went through the three states.
C6_Witness == pc = "terminated" /\ exit = "query" /\ Len(log) >= 1

\* The failures C7 and C8 name.
NamedFailures == {"load_err", "connect_err", "query_err", "extract_err"}

\* C7: a failure of the configuration load, of connecting, of a query or of
\* the extraction is the last thing the process does (no connection attempt,
\* query, sleep or record follows it), and at most one connection is opened.
C7_FailureIsFinal ==
    /\ \A k \in 1..Len(trace) :
        trace[k].ev \in NamedFailures => k = Len(trace) /\ pc = "terminated"
    /\ conns <= 1
    /\ UpTo(Len(trace), "connect_ok") + UpTo(Len(trace), "connect_err") <= 1

\* C7's case: the extraction failed in a later iteration.
C7_Witness == exit = "extract" /\ conns = 1 /\ Len(log) >= 1 /\ pc = "terminated"

\* C8: when the process has ended by a configuration, connection, query or
\* extraction error, the records written are the "tick" records of the
\* iterations completed before: none for a failure while initializing, and
\* none for the failing iteration.
C8_NoRecordForFailure ==
    exit \in {"config", "connect", "query", "extract"} =>
        /\ \A i \in 1..Len(log) : TickRecord(log[i])
        /\ exit \in {"config", "connect"} => Len(log) = 0
        /\ exit \in {"query", "extract"} => Len(log) = Sleeps - 1
        /\ Len(log) = UpTo(Len(trace), "emit")

\* C8's case: the query of the third iteration failed.
C8_Witness == exit = "query" /\ Len(log) = 2 /\ Sleeps = 3

\* C9: a query directly follows a sleep of one second, an extraction directly
\* follows a query, and a record directly follows an extraction: the steps
\* of an iteration are sleep, query, extract, emit.
C9_StepOrder ==
    \A k \in 1..Len(trace) :
        /\ trace[k].ev \in {"query_ok", "query_err"} =>
             k > 1 /\ trace[k - 1].ev = "sleep" /\ trace[k - 1].dur = UnitsPerSec
        /\ trace[k].ev \in {"extract_ok", "extract_err"} =>
             k > 1 /\ trace[k - 1].ev = "query_ok"
        /\ trace[k].ev = "emit" =>
             k > 3 /\ trace[k - 1].ev = "extract_ok" /\ trace[k - 2].ev = "query_ok"
                   /\ trace[k - 3].ev = "sleep"

\* C9's case: the second iteration has emitted its record.
C9_Witness == UpTo(Len(trace), "emit") = 2 /\ trace[Len(trace)].ev = "emit"

\* The last statement run wrote a record.
JustEmitted == trace # <<>> /\ trace[Len(trace)].ev = "emit"

\* C10 as stated: unless the configuration load, the connection, a query or
\* an extraction fails, records are emitted again and again.
C10_AsStated ==
    \/ []<>JustEmitted
    \/ <>(exit \in {"config", "connect", "query", "extract"})

\* C10: the loop is never left normally: the process ends only by a fatal
\* error, and unless the configuration load, the connection, a query, an
\* extraction or a write of the log sink fails, records are emitted again
\* and again.
C10_LoopNeverReturns ==
    /\ [](pc = "terminated" => exit \in {"config", "connect", "query", "extract", "log"})
    /\ \/ []<>JustEmitted
       \/ <>(exit \in {"config", "connect", "query", "extract", "log"})

\* C10's case: the loop is still emitting when the model's clock has run
\* out and the window of the log is full.
C10_Witness == exit = "" /\ JustEmitted /\ now = MaxNow /\ Len(log) = Window

=============================================================================
